---- MODULE Spec2Model ----
(***************************************************************************)
(* Model of the access-log analytics service: the SQLite event store       *)
(* (access_logs), the ingestion path (log_access of app.py and api.py),    *)
(* the query handlers of app.py and the dump/restore pair                  *)
(* (backup_sqlite / restaurar_backup).                                     *)
(*                                                                         *)
(* Text held in the table (user_id, page, ip, browser, timestamp) is a     *)
(* sequence of character codes, so that it is compared, ordered, sliced    *)
(* and concatenated as SQLite and Python do it.                            *)
(***************************************************************************)
EXTENDS Integers, Sequences, FiniteSets, TLC

VARIABLES
    db,        \* analytics.db: committed contents of the database file
    clock,     \* index into Instants: the current wall-clock moment
    tz,        \* hours the server's local zone is ahead of America/Sao_Paulo
    result,    \* response of the most recent handler call in the sequential specs
    pc,        \* per worker: position inside the handler it is running
    call,      \* per worker: the request being served and the handler's locals
    conns,     \* per worker: connections opened and not yet closed, with their state
    lock,      \* SQLite file lock: holder of RESERVED, PENDING flag, SHARED holders
    history,   \* log of finished calls (request, outcome, store size seen)
    dump,      \* backup_analytics.sql: the statements written by backup_sqlite
    target     \* the database file restaurar_backup replays the dump into

vars == <<db, clock, tz, result, pc, call, conns, lock, history, dump, target>>

----
(***************************************************************************)
(* Bounds of the model                                                     *)
(***************************************************************************)
MaxRows == 3

----
(***************************************************************************)
(* Request values the specifications draw from                             *)
(***************************************************************************)
Anon == <<97, 110, 111, 110>>               \* "anon"
Bob == <<98, 111, 98>>                      \* "bob"
Ann == <<97, 110, 110>>                     \* "ann"
Pipe == <<124>>                             \* "|"
Ip1 == <<49, 46, 49, 46, 49, 46, 49>>       \* "1.1.1.1"
Ip2 == <<50, 46, 50, 46, 50, 46, 50>>       \* "2.2.2.2"
AgentX == <<88>>                            \* "X"
PageA == <<47, 97>>                         \* "/a"
PageB == <<47, 98>>                         \* "/b"
\* "Desconhecido"
Desconhecido == <<68, 101, 115, 99, 111, 110, 104, 101, 99, 105, 100, 111>>
\* a request without a User-Agent header
NoHeader == <<-1>>

----
(***************************************************************************)
(* Text: character codes, formatting, comparison                           *)
(***************************************************************************)
Digit(d) == 48 + d
Dash == <<45>>
Space == <<32>>
Colon == <<58>>

RECURSIVE Digits(_)
\* str(n) for n >= 0
Digits(n) == IF n < 10 THEN <<Digit(n)>> ELSE Digits(n \div 10) \o <<Digit(n % 10)>>

RECURSIVE Pad(_, _)
\* left-pad a digit text with '0' up to width w (the 0Nd of a format spec)
Pad(t, w) == IF Len(t) >= w THEN t ELSE Pad(<<Digit(0)>> \o t, w)

\* f"{n:02d}" and %m %d %H %M %S of strftime
Fmt02(n) == Pad(Digits(n), 2)
\* %Y of strftime for the years a clock can show
Fmt04(n) == Pad(Digits(n), 4)

RECURSIVE TextLess(_, _)
\* BINARY collation of SQLite TEXT: bytewise, a proper prefix sorts first
TextLess(a, b) ==
    IF Len(b) = 0 THEN FALSE
    ELSE IF Len(a) = 0 THEN TRUE
    ELSE IF Head(a) # Head(b) THEN Head(a) < Head(b)
    ELSE TextLess(Tail(a), Tail(b))

TextLeq(a, b) == a = b \/ TextLess(a, b)

IsDigit(c) == c >= 48 /\ c <= 57

RECURSIVE ToInt(_)
\* value of a text of digits
ToInt(t) == IF Len(t) = 0 THEN 0 ELSE 10 * ToInt(SubSeq(t, 1, Len(t) - 1)) + (t[Len(t)] - 48)

----
(***************************************************************************)
(* Civil time                                                              *)
(***************************************************************************)
Civil(y, mo, d, h, mi, s) == [Y |-> y, Mo |-> mo, D |-> d, h |-> h, mi |-> mi, s |-> s]

IsLeap(y) == (y % 4 = 0 /\ y % 100 # 0) \/ y % 400 = 0

DaysInMonth(y, mo) ==
    IF mo = 2 THEN (IF IsLeap(y) THEN 29 ELSE 28)
    ELSE IF mo \in {4, 6, 9, 11} THEN 30 ELSE 31

PrevDay(t) ==
    IF t.D > 1 THEN [t EXCEPT !.D = t.D - 1]
    ELSE IF t.Mo > 1 THEN [t EXCEPT !.Mo = t.Mo - 1, !.D = DaysInMonth(t.Y, t.Mo - 1)]
    ELSE [t EXCEPT !.Y = t.Y - 1, !.Mo = 12, !.D = 31]

NextDay(t) ==
    IF t.D < DaysInMonth(t.Y, t.Mo) THEN [t EXCEPT !.D = t.D + 1]
    ELSE IF t.Mo < 12 THEN [t EXCEPT !.Mo = t.Mo + 1, !.D = 1]
    ELSE [t EXCEPT !.Y = t.Y + 1, !.Mo = 1, !.D = 1]

RECURSIVE AddDays(_, _)
\* t + timedelta(days=n), n of either sign
AddDays(t, n) ==
    IF n = 0 THEN t
    ELSE IF n > 0 THEN AddDays(NextDay(t), n - 1)
    ELSE AddDays(PrevDay(t), n + 1)

RECURSIVE AddHours(_, _)
\* t + timedelta(hours=n), n of either sign
AddHours(t, n) ==
    IF n = 0 THEN t
    ELSE IF n > 0
         THEN IF t.h < 23 THEN AddHours([t EXCEPT !.h = t.h + 1], n - 1)
              ELSE AddHours([NextDay(t) EXCEPT !.h = 0], n - 1)
    ELSE IF t.h > 0 THEN AddHours([t EXCEPT !.h = t.h - 1], n + 1)
         ELSE AddHours([PrevDay(t) EXCEPT !.h = 23], n + 1)

\* strftime("%Y-%m-%d")
FmtDate(t) == Fmt04(t.Y) \o Dash \o Fmt02(t.Mo) \o Dash \o Fmt02(t.D)
\* strftime("%Y-%m-%d %H:%M:%S")
FmtTimestamp(t) ==
    FmtDate(t) \o Space \o Fmt02(t.h) \o Colon \o Fmt02(t.mi) \o Colon \o Fmt02(t.s)

----
(***************************************************************************)
(* SQLite date functions on the stored timestamp text                      *)
(***************************************************************************)
\* The stored text is accepted by SQLite's date parser when it has the shape
\* YYYY-MM-DD HH:MM:SS with fields in range.
IsTimestampText(t) ==
    /\ Len(t) = 19
    /\ t[5] = 45 /\ t[8] = 45 /\ t[11] = 32 /\ t[14] = 58 /\ t[17] = 58
    /\ \A i \in {1, 2, 3, 4, 6, 7, 9, 10, 12, 13, 15, 16, 18, 19} : IsDigit(t[i])
    /\ ToInt(SubSeq(t, 6, 7)) \in 1..12
    /\ ToInt(SubSeq(t, 9, 10)) \in 1..31
    /\ ToInt(SubSeq(t, 12, 13)) \in 0..23
    /\ ToInt(SubSeq(t, 15, 16)) \in 0..59
    /\ ToInt(SubSeq(t, 18, 19)) \in 0..59

ParseTimestamp(t) ==
    Civil(ToInt(SubSeq(t, 1, 4)), ToInt(SubSeq(t, 6, 7)), ToInt(SubSeq(t, 9, 10)),
          ToInt(SubSeq(t, 12, 13)), ToInt(SubSeq(t, 15, 16)), ToInt(SubSeq(t, 18, 19)))

\* SQL NULL
Null == <<>>

\* date(timestamp)
SqlDate(t) == IF IsTimestampText(t) THEN FmtDate(ParseTimestamp(t)) ELSE Null
\* strftime('%m', timestamp)
SqlMonth(t) == IF IsTimestampText(t) THEN Fmt02(ParseTimestamp(t).Mo) ELSE Null
\* strftime('%Y', timestamp)
SqlYear(t) == IF IsTimestampText(t) THEN Fmt04(ParseTimestamp(t).Y) ELSE Null

----
(***************************************************************************)
(* The store: table access_logs of analytics.db                            *)
(***************************************************************************)
IndexNames == {"idx_user_id", "idx_page", "idx_timestamp", "idx_ip", "idx_browser"}

\* A database file that does not exist yet (sqlite3.connect creates it empty).
FreshDb == [tableExists |-> FALSE, rows |-> <<>>, seq |-> 0, indexes |-> {}]

Max(a, b) == IF a >= b THEN a ELSE b
Min(a, b) == IF a <= b THEN a ELSE b

RECURSIVE MaxId(_)
MaxId(rows) == IF Len(rows) = 0 THEN 0 ELSE Max(Head(rows).id, MaxId(Tail(rows)))

\* the largest rowid handed out again, instead of the one after it
rowid_not_advanced(d) == Max(d.seq, MaxId(d.rows))

\* id INTEGER PRIMARY KEY AUTOINCREMENT: one more than the largest rowid the
\* table has ever held (sqlite_sequence) or holds now.
NextRowid(d) == Max(d.seq, MaxId(d.rows)) + 1

\* CREATE TABLE IF NOT EXISTS access_logs
create_table(d) == [d EXCEPT !.tableExists = TRUE]
\* CREATE INDEX IF NOT EXISTS idx_... (the five of app.py)
create_indexes(d) == [d EXCEPT !.indexes = @ \union IndexNames]

\* get_db of app.py, run without interference: schema and indexes ensured
get_db(d) == create_indexes(create_table(d))
\* get_db of api.py: the table only
get_db_api(d) == create_table(d)

\* INSERT INTO access_logs (user_id, page, ip, browser, timestamp) VALUES (?,?,?,?,?)
insert(d, user_id, page, ip, browser, timestamp) ==
    LET id == NextRowid(d)
    IN [d EXCEPT !.rows = Append(@, [id |-> id, user_id |-> user_id, page |-> page,
                                      ip |-> ip, browser |-> browser,
                                      timestamp |-> timestamp]),
                 !.seq = id]

----
(***************************************************************************)
(* SELECT building blocks                                                  *)
(***************************************************************************)
RECURSIVE Reverse(_)
Reverse(s) == IF Len(s) = 0 THEN <<>> ELSE Append(Reverse(Tail(s)), Head(s))

\* Position of a row in idx_timestamp: by timestamp, then by rowid.
IndexBefore(a, b) ==
    \/ TextLess(a.timestamp, b.timestamp)
    \/ a.timestamp = b.timestamp /\ a.id < b.id

RECURSIVE InsertSorted(_, _)
InsertSorted(s, r) ==
    IF Len(s) = 0 THEN <<r>>
    ELSE IF IndexBefore(r, Head(s)) THEN <<r>> \o s
    ELSE <<Head(s)>> \o InsertSorted(Tail(s), r)

RECURSIVE IndexScan(_)
\* the rows in the order of idx_timestamp
IndexScan(rows) ==
    IF Len(rows) = 0 THEN <<>> ELSE InsertSorted(IndexScan(Tail(rows)), Head(rows))

\* ORDER BY timestamp ASC | DESC
OrderByTimestamp(rows, order) ==
    IF order = "DESC" THEN Reverse(IndexScan(rows)) ELSE IndexScan(rows)

\* LIMIT ? OFFSET ?
LimitOffset(s, limit, off) ==
    IF off >= Len(s) THEN <<>> ELSE SubSeq(s, off + 1, Min(Len(s), off + limit))

----
(***************************************************************************)
(* Ingestion, run as one uninterrupted call (the sequential specifications) *)
(***************************************************************************)
\* datetime.now(fuso_br): the clock is kept in America/Sao_Paulo civil time
now_br == clock
\* datetime.now(): the server's own zone, tz hours ahead of America/Sao_Paulo
now_local == AddHours(clock, tz)

\* request.headers.get("User-Agent", "Desconhecido")
user_agent_of(header) == IF header = NoHeader THEN Desconhecido ELSE header

log_access_row(d, user_id, page, ip, header) ==
    insert(get_db(d), user_id, page, ip, user_agent_of(header), FmtTimestamp(now_br))

LogAccess(max, UserIds, PageNames, Ips, Agents) ==
    /\ Len(db.rows) < max
    /\ \E u \in UserIds, p \in PageNames, i \in Ips, a \in Agents :
         /\ db' = log_access_row(db, u, p, i, a)
         /\ result' = [op |-> "log_access", status |-> 200, success |-> TRUE]
    /\ UNCHANGED <<clock, tz, pc, call, conns, lock, history, dump, target>>

\* Time passes: the clock moves to a later one of the instants a
\* specification samples.
Tick(Instants) ==
    /\ \E t \in Instants :
         /\ TextLess(FmtTimestamp(clock), FmtTimestamp(t))
         /\ clock' = t
    /\ UNCHANGED <<db, tz, result, pc, call, conns, lock, history, dump, target>>

----
(***************************************************************************)
(* GET /access_logs                                                        *)
(***************************************************************************)
MaxPage == 3
MaxPageSize == 2

\* a page-numbering slip: pages counted from 0
offset_from_zero(page, page_size) == page * page_size

\* offset = (page - 1) * page_size
offset_of(page, page_size) == (page - 1) * page_size

get_access_logs(d, page, page_size, sort) ==
    IF page < 1 \/ page_size < 1 \/ page_size > 100 \/ sort \notin {"asc", "desc"}
    THEN [op |-> "get_access_logs", status |-> 422]
    ELSE LET offset == offset_of(page, page_size)
             order == IF sort = "desc" THEN "DESC" ELSE "ASC"
             logs == LimitOffset(OrderByTimestamp(d.rows, order), page_size, offset)
         IN [op |-> "get_access_logs", status |-> 200, sort |-> sort,
             data |-> logs, page |-> page, page_size |-> page_size]

GetAccessLogs ==
    /\ \E page \in 0..MaxPage, page_size \in 0..MaxPageSize, sort \in {"asc", "desc"} :
         result' = get_access_logs(get_db(db), page, page_size, sort)
    /\ db' = get_db(db)
    /\ UNCHANGED <<clock, tz, pc, call, conns, lock, history, dump, target>>

\* The wall clock is set back (it is not monotonic): a later row can carry an
\* earlier timestamp than the rows before it.
ClockSetBack(Instants) ==
    /\ \E t \in Instants :
         /\ TextLess(FmtTimestamp(t), FmtTimestamp(clock))
         /\ clock' = t
    /\ UNCHANGED <<db, tz, result, pc, call, conns, lock, history, dump, target>>

\* Zones the server may run in: America/Sao_Paulo itself, or UTC (3 hours ahead).
ServerZones == {0, 3}

NoResult == [op |-> "none"]
Workers == {"w1", "w2"}

\* State shared by the sequential specifications: an absent database file, no
\* request in flight, no backup taken.
InitAt(t0, zones) ==
    /\ db = FreshDb
    /\ clock = t0
    /\ tz \in zones
    /\ result = NoResult
    /\ pc = [w \in Workers |-> "idle"]
    /\ call = [w \in Workers |-> NoResult]
    /\ conns = [open |-> {}, leaked |-> 0]
    /\ lock = [reserved |-> "none", exclusive |-> FALSE]
    /\ history = <<>>
    /\ target = FreshDb

PagingInstants == {Civil(2025, 7, 15, 10, 0, 0), Civil(2025, 7, 15, 10, 0, 1)}

InitPaging == InitAt(Civil(2025, 7, 15, 10, 0, 0), ServerZones) /\ dump = <<>>

NextPaging ==
    \/ LogAccess(MaxRows, {Bob}, {PageA}, {Ip1}, {AgentX})
    \/ Tick(PagingInstants)
    \/ ClockSetBack(PagingInstants)
    \/ GetAccessLogs

SpecPaging == InitPaging /\ [][NextPaging]_vars

RECURSIVE PagesConcat(_, _, _, _)
\* the data of pages p, p+1, ... of a listing, one after the other, up to the
\* first page past the last row
PagesConcat(d, p, s, sort) ==
    IF (p - 1) * s >= Len(d.rows) THEN get_access_logs(d, p, s, sort).data
    ELSE get_access_logs(d, p, s, sort).data \o PagesConcat(d, p + 1, s, sort)

SortedByTimestamp(full, sort) ==
    \A i, j \in 1..Len(full) :
        i < j => IF sort = "asc" THEN TextLeq(full[i].timestamp, full[j].timestamp)
                 ELSE TextLeq(full[j].timestamp, full[i].timestamp)

SameRows(full, rows) ==
    /\ Len(full) = Len(rows)
    /\ \A i \in 1..Len(rows) : \E j \in 1..Len(full) : full[j] = rows[i]

\* C9: page p of size s of GET /access_logs holds exactly the rows at positions
\* (p-1)*s+1 .. p*s of the whole table ordered by timestamp in the selected
\* direction; a page past the last row is an empty list with status 200; and
\* the pages 1, 2, 3, ... of an unchanged store, concatenated, are that whole
\* ordered table, every row once.
C9_Pagination ==
    /\ (result.op = "get_access_logs" /\ result.status = 200) =>
         LET full == OrderByTimestamp(db.rows, IF result.sort = "desc" THEN "DESC" ELSE "ASC")
             first == (result.page - 1) * result.page_size
         IN /\ SortedByTimestamp(full, result.sort)
            /\ SameRows(full, db.rows)
            /\ Len(result.data) = Max(0, Min(result.page_size, Len(full) - first))
            /\ \A i \in 1..Len(result.data) : result.data[i] = full[first + i]
    /\ \A sort \in {"asc", "desc"}, s \in 1..MaxPageSize :
         LET all == PagesConcat(db, 1, s, sort)
         IN /\ SortedByTimestamp(all, sort)
            /\ SameRows(all, db.rows)

\* C9 witness: the second page of size 2 of a three-row table whose rows were
\* not inserted in timestamp order holds the one remaining row.
C9_Witness ==
    /\ result.op = "get_access_logs" /\ result.status = 200
    /\ result.page = 2 /\ result.page_size = 2 /\ result.sort = "asc"
    /\ Len(db.rows) = 3
    /\ TextLess(db.rows[3].timestamp, db.rows[1].timestamp)
    /\ result.data = <<db.rows[2]>>

----
(***************************************************************************)
(* GET /stats/daily_summary                                                *)
(***************************************************************************)
MaxDays == 2

RECURSIVE SortTextDesc(_)
\* the texts of a set, largest first (ORDER BY ... DESC on distinct keys)
SortTextDesc(S) ==
    IF S = {} THEN <<>>
    ELSE LET m == CHOOSE x \in S : \A y \in S : TextLeq(y, x)
         IN <<m>> \o SortTextDesc(S \ {m})

RowSet(rows) == {rows[i] : i \in 1..Len(rows)}

\* CASE WHEN user_id = 'anon' THEN ip || '|' || browser ELSE user_id END
visitor_case(r) == IF r.user_id = Anon THEN r.ip \o Pipe \o r.browser ELSE r.user_id

\* WHERE date(timestamp) BETWEEN ? AND ?   (a NULL date matches nothing)
date_between(r, lo, hi) ==
    /\ SqlDate(r.timestamp) # Null
    /\ TextLeq(lo, SqlDate(r.timestamp))
    /\ TextLeq(SqlDate(r.timestamp), hi)

get_daily_summary(d, days) ==
    IF days < 1 THEN [op |-> "get_daily_summary", status |-> 422]
    ELSE LET end_date == now_br
             start_date == AddDays(end_date, 0 - days)
             lo == FmtDate(start_date)
             hi == FmtDate(end_date)
             sel == {r \in RowSet(d.rows) : date_between(r, lo, hi)}
             dates == SortTextDesc({SqlDate(r.timestamp) : r \in sel})
             group(dt) == {r \in sel : SqlDate(r.timestamp) = dt}
         IN [op |-> "get_daily_summary", status |-> 200,
             days_analyzed |-> days, start_date |-> lo, end_date |-> hi,
             daily_summary |->
                [i \in 1..Len(dates) |->
                    [date |-> dates[i],
                     total_accesses |-> Cardinality(group(dates[i])),
                     unique_users |-> Cardinality({visitor_case(r) : r \in group(dates[i])})]]]

GetDailySummary ==
    /\ \E days \in 0..MaxDays : result' = get_daily_summary(get_db(db), days)
    /\ db' = get_db(db)
    /\ UNCHANGED <<clock, tz, pc, call, conns, lock, history, dump, target>>

DailyInstants ==
    {Civil(2025, 12, 31, 9, 0, 0), Civil(2025, 12, 31, 23, 59, 59), Civil(2026, 1, 1, 0, 0, 0)}

InitDaily == InitAt(Civil(2025, 12, 31, 9, 0, 0), ServerZones) /\ dump = <<>>

NextDaily ==
    \/ LogAccess(MaxRows, {Anon, Bob, Ip1 \o Pipe \o AgentX}, {PageA}, {Ip1}, {AgentX})
    \/ Tick(DailyInstants)
    \/ GetDailySummary

SpecDaily == InitDaily /\ [][NextDaily]_vars

\* The visitor key of the merge rule: the user_id of an identified event, the
\* pair (ip, browser) of an anonymous one.  The two kinds are never equal.
VisitorKey(r) ==
    IF r.user_id # Anon THEN <<"user", r.user_id, <<>>>> ELSE <<"anon", r.ip, r.browser>>

\* C7: for every date of the daily summary, unique_users is the number of
\* distinct visitor keys among that date's events, for any text in user_id,
\* ip and browser.
C7_UniqueVisitors ==
    (result.op = "get_daily_summary" /\ result.status = 200) =>
        \A i \in 1..Len(result.daily_summary) :
            LET e == result.daily_summary[i]
                day == {r \in RowSet(db.rows) : SqlDate(r.timestamp) = e.date}
            IN e.unique_users = Cardinality({VisitorKey(r) : r \in day})

----
(***************************************************************************)
(* Month/year operations                                                   *)
(***************************************************************************)
MaxMonthRows == 2

\* f"{mes}" without the 02d: a formatting slip
month_unpadded(mes) == Digits(mes)

\* f"{mes:02d}"
month_text(mes) == Fmt02(mes)

Day01 == <<48, 49>>

\* start_date = f"{ano}-{mes:02d}-01"
start_date_of(mes, ano) == Digits(ano) \o Dash \o month_text(mes) \o Dash \o Day01

\* end_date: the first day of the next month, December rolling to January
end_date_of(mes, ano) ==
    IF mes = 12 THEN Digits(ano + 1) \o Dash \o <<48, 49>> \o Dash \o Day01
    ELSE Digits(ano) \o Dash \o month_text(mes + 1) \o Dash \o Day01

\* WHERE timestamp >= ? AND timestamp < ?
in_interval(r, start_date, end_date) ==
    TextLeq(start_date, r.timestamp) /\ TextLess(r.timestamp, end_date)

\* WHERE strftime('%m', timestamp) = ? AND strftime('%Y', timestamp) = ?
in_strftime_month(r, mes_str, ano_str) ==
    /\ SqlMonth(r.timestamp) # Null /\ SqlMonth(r.timestamp) = mes_str
    /\ SqlYear(r.timestamp) # Null /\ SqlYear(r.timestamp) = ano_str

month_year_valid(mes, ano) == mes >= 1 /\ mes <= 12 /\ ano >= 2000 /\ ano <= 2100

RECURSIVE InsertAfterGeq(_, _)
InsertAfterGeq(s, r) ==
    IF Len(s) = 0 THEN <<r>>
    ELSE IF TextLess(Head(s).timestamp, r.timestamp) THEN <<r>> \o s
    ELSE <<Head(s)>> \o InsertAfterGeq(Tail(s), r)

RECURSIVE SorterDesc(_)
\* ORDER BY timestamp DESC through a sorter (TEMP B-TREE): rows of equal
\* timestamp keep the order in which they were fed
SorterDesc(rows) ==
    IF Len(rows) = 0 THEN <<>>
    ELSE InsertAfterGeq(SorterDesc(SubSeq(rows, 1, Len(rows) - 1)), rows[Len(rows)])

get_logs_by_month_year(d, mes, ano, limit) ==
    IF ~month_year_valid(mes, ano) \/ limit < 1 \/ limit > 10000
    THEN [op |-> "get_logs_by_month_year", status |-> 422]
    ELSE LET mes_str == month_text(mes)
             ano_str == Digits(ano)
             sel == SelectSeq(d.rows, LAMBDA r : in_strftime_month(r, mes_str, ano_str))
             logs == LimitOffset(OrderByTimestamp(sel, "DESC"), limit, 0)
         IN [op |-> "get_logs_by_month_year", status |-> 200, mes |-> mes, ano |-> ano,
             limit |-> limit, total |-> Len(logs), data |-> logs]

get_logs_by_page_and_month_year(d, page, mes, ano, limit) ==
    IF ~month_year_valid(mes, ano) \/ limit < 1 \/ limit > 50000
    THEN [op |-> "get_logs_by_page_and_month_year", status |-> 422]
    ELSE LET start_date == start_date_of(mes, ano)
             end_date == end_date_of(mes, ano)
             sel == SelectSeq(d.rows, LAMBDA r : r.page = page
                                                 /\ in_interval(r, start_date, end_date))
             logs == LimitOffset(SorterDesc(sel), limit, 0)
         IN [op |-> "get_logs_by_page_and_month_year", status |-> 200, page |-> page,
             mes |-> mes, ano |-> ano, limit |-> limit, total |-> Len(logs), data |-> logs]

RECURSIVE SortTextAsc(_)
\* the texts of a set, smallest first
SortTextAsc(S) ==
    IF S = {} THEN <<>>
    ELSE LET m == CHOOSE x \in S : \A y \in S : TextLeq(x, y)
         IN <<m>> \o SortTextAsc(S \ {m})

\* SELECT page, COUNT(*) ... GROUP BY page, as the dict built from it
count_by_page(R) ==
    [p \in {r.page : r \in R} |-> Cardinality({r \in R : r.page = p})]
\* SELECT page, COUNT(DISTINCT user_id) ... GROUP BY page, as the dict built from it
uniques_by_page(R) ==
    [p \in {r.page : r \in R} |-> Cardinality({r.user_id : r \in {x \in R : x.page = p}})]

\* dict.get(page, 0)
dict_get(dct, k) == IF k \in DOMAIN dct THEN dct[k] ELSE 0

\* the rows seen by the two SELECTs restricted to the month
rows_in_month(rows, mes, ano) ==
    {r \in RowSet(rows) : in_interval(r, start_date_of(mes, ano), end_date_of(mes, ano))}
\* the rows seen by the two SELECTs accumulated until the end of the month
rows_until_month(rows, mes, ano) ==
    {r \in RowSet(rows) : TextLess(r.timestamp, end_date_of(mes, ano))}

\* only the pages with events in the month listed
assemble_month_pages(mc, mu, uc, uu, tc, tu) ==
    LET sorted == SortTextAsc(DOMAIN mc)
    IN [i \in 1..Len(sorted) |->
          [page |-> sorted[i],
           count_in_month |-> dict_get(mc, sorted[i]),
           unique_users_in_month |-> dict_get(mu, sorted[i]),
           count_until_month |-> dict_get(uc, sorted[i]),
           unique_users_until_month |-> dict_get(uu, sorted[i]),
           count_total |-> dict_get(tc, sorted[i]),
           unique_users_total |-> dict_get(tu, sorted[i])]]

\* "Montar resposta final": the union of the six key sets, sorted, zero-filled
assemble_pages(mc, mu, uc, uu, tc, tu) ==
    LET all_pages == DOMAIN mc \union DOMAIN mu \union DOMAIN uc \union DOMAIN uu
                     \union DOMAIN tc \union DOMAIN tu
        sorted == SortTextAsc(all_pages)
    IN [i \in 1..Len(sorted) |->
          [page |-> sorted[i],
           count_in_month |-> dict_get(mc, sorted[i]),
           unique_users_in_month |-> dict_get(mu, sorted[i]),
           count_until_month |-> dict_get(uc, sorted[i]),
           unique_users_until_month |-> dict_get(uu, sorted[i]),
           count_total |-> dict_get(tc, sorted[i]),
           unique_users_total |-> dict_get(tu, sorted[i])]]

\* the handler run without interference: all six SELECTs see the same rows
get_page_counts_and_uniques_by_month_year(d, mes, ano) ==
    IF ~month_year_valid(mes, ano)
    THEN [op |-> "get_page_counts_and_uniques_by_month_year", status |-> 422]
    ELSE LET inm == rows_in_month(d.rows, mes, ano)
             until == rows_until_month(d.rows, mes, ano)
             all == RowSet(d.rows)
         IN [op |-> "get_page_counts_and_uniques_by_month_year", status |-> 200,
             mes |-> mes, ano |-> ano,
             pages |-> assemble_pages(count_by_page(inm), uniques_by_page(inm),
                                      count_by_page(until), uniques_by_page(until),
                                      count_by_page(all), uniques_by_page(all))]

\* SELECT page, user_id, COUNT(*) ... GROUP BY page, user_id, folded into
\* page_user_counts: per page, the access counts of its users
page_user_counts(R) ==
    [p \in {r.page : r \in R} |->
        [u \in {r.user_id : r \in {x \in R : x.page = p}} |->
            Cardinality({r \in R : r.page = p /\ r.user_id = u})]]

\* every bucket counting the users with at least that many accesses
frequency_at_least(user_counts) ==
    LET n(k) == Cardinality({u \in DOMAIN user_counts : user_counts[u] >= k})
    IN [x1 |-> n(1), x2 |-> n(2), x3 |-> n(3), x4 |-> n(4), x5_or_more |-> n(5)]

\* the if/elif chain over one page's counts
frequency(user_counts) ==
    LET n(P(_)) == Cardinality({u \in DOMAIN user_counts : P(user_counts[u])})
    IN [x1 |-> n(LAMBDA c : c = 1), x2 |-> n(LAMBDA c : c = 2), x3 |-> n(LAMBDA c : c = 3),
        x4 |-> n(LAMBDA c : c = 4),
        x5_or_more |-> n(LAMBDA c : c # 1 /\ c # 2 /\ c # 3 /\ c # 4)]

RECURSIVE MaxOf(_)
\* max_access = max(max_access, count) from 0
MaxOf(S) == IF S = {} THEN 0 ELSE LET x == CHOOSE y \in S : TRUE IN Max(x, MaxOf(S \ {x}))

get_recurrence_by_page(d, mes, ano) ==
    IF ~month_year_valid(mes, ano)
    THEN [op |-> "get_recurrence_by_page", status |-> 422]
    ELSE LET puc == page_user_counts(rows_in_month(d.rows, mes, ano))
             sorted == SortTextAsc(DOMAIN puc)
         IN [op |-> "get_recurrence_by_page", status |-> 200, mes |-> mes, ano |-> ano,
             pages |-> [i \in 1..Len(sorted) |->
                 [page |-> sorted[i], month |-> mes, year |-> ano,
                  user_access_frequency |-> frequency(puc[sorted[i]]),
                  max_accesses_by_single_user |->
                      MaxOf({puc[sorted[i]][u] : u \in DOMAIN puc[sorted[i]]})]]]

GetLogsByMonthYear ==
    /\ \E mes \in {0, 1, 12}, ano \in {2025}, limit \in {1, 1000} :
         result' = get_logs_by_month_year(get_db(db), mes, ano, limit)
    /\ db' = get_db(db)
    /\ UNCHANGED <<clock, tz, pc, call, conns, lock, history, dump, target>>

GetLogsByPageAndMonthYear ==
    /\ \E page \in {PageA}, mes \in {1, 12}, ano \in {1999, 2026}, limit \in {1, 10000} :
         result' = get_logs_by_page_and_month_year(get_db(db), page, mes, ano, limit)
    /\ db' = get_db(db)
    /\ UNCHANGED <<clock, tz, pc, call, conns, lock, history, dump, target>>

GetPageCountsAndUniquesByMonthYear ==
    /\ \E mes \in {12, 13}, ano \in {2025} :
         result' = get_page_counts_and_uniques_by_month_year(get_db(db), mes, ano)
    /\ db' = get_db(db)
    /\ UNCHANGED <<clock, tz, pc, call, conns, lock, history, dump, target>>

GetRecurrenceByPage ==
    /\ \E mes \in {1, 12}, ano \in {2026, 2101} :
         result' = get_recurrence_by_page(get_db(db), mes, ano)
    /\ db' = get_db(db)
    /\ UNCHANGED <<clock, tz, pc, call, conns, lock, history, dump, target>>

\* the last and the first second of the months around a year's end
MonthInstants ==
    {Civil(2025, 11, 30, 23, 59, 59), Civil(2025, 12, 1, 0, 0, 0),
     Civil(2025, 12, 31, 23, 59, 59), Civil(2026, 1, 1, 0, 0, 0),
     Civil(2026, 1, 31, 23, 59, 59), Civil(2026, 2, 1, 0, 0, 0)}

InitMonth == InitAt(Civil(2025, 11, 30, 23, 59, 59), {0}) /\ dump = <<>>

NextMonth ==
    \/ LogAccess(MaxMonthRows, {Bob}, {PageA, PageB}, {Ip1}, {AgentX})
    \/ Tick(MonthInstants)
    \/ GetLogsByMonthYear
    \/ GetLogsByPageAndMonthYear
    \/ GetPageCountsAndUniquesByMonthYear
    \/ GetRecurrenceByPage

SpecMonth == InitMonth /\ [][NextMonth]_vars

\* Order of civil times, field by field.
CivilLess(a, b) ==
    LET ka == <<a.Y, a.Mo, a.D, a.h, a.mi, a.s>>
        kb == <<b.Y, b.Mo, b.D, b.h, b.mi, b.s>>
    IN \E i \in 1..6 : ka[i] < kb[i] /\ \A j \in 1..(i - 1) : ka[j] = kb[j]

\* The event lies in [ano-mes-01 00:00:00, first instant of the next month).
InMonth(r, mes, ano) ==
    LET t == ParseTimestamp(r.timestamp)
        first == Civil(ano, mes, 1, 0, 0, 0)
        next == IF mes = 12 THEN Civil(ano + 1, 1, 1, 0, 0, 0) ELSE Civil(ano, mes + 1, 1, 0, 0, 0)
    IN ~CivilLess(t, first) /\ CivilLess(t, next)

MonthRows(d, mes, ano) == {r \in RowSet(d.rows) : InMonth(r, mes, ano)}

Range(f) == {f[i] : i \in DOMAIN f}

CheckYears == {2000, 2025, 2026, 2100}

\* The four month/year operations, asked for month mes of year ano with the
\* largest limit, all pick exactly the events of that month.
MonthSelectionExact(d, mes, ano) ==
    LET M == MonthRows(d, mes, ano)
        counts == get_page_counts_and_uniques_by_month_year(d, mes, ano).pages
        rec == get_recurrence_by_page(d, mes, ano).pages
    IN /\ Range(get_logs_by_month_year(d, mes, ano, 10000).data) = M
       /\ \A p \in {PageA, PageB} :
            Range(get_logs_by_page_and_month_year(d, p, mes, ano, 50000).data)
                = {r \in M : r.page = p}
       /\ \A i \in 1..Len(counts) :
            counts[i].count_in_month = Cardinality({r \in M : r.page = counts[i].page})
       /\ {r.page : r \in M} \subseteq {counts[i].page : i \in 1..Len(counts)}
       /\ {rec[i].page : i \in 1..Len(rec)} = {r.page : r \in M}
       /\ \A i \in 1..Len(rec) :
            LET f == rec[i].user_access_frequency
            IN f.x1 + f.x2 + f.x3 + f.x4 + f.x5_or_more
                 = Cardinality({r.user_id : r \in {x \in M : x.page = rec[i].page}})

\* C8: for every mes in 1..12 and the years checked, each month/year operation
\* selects exactly the events whose timestamp lies in [ano-mes-01, first day of
\* the next month), December rolling over to January of ano+1; the strftime
\* selection and the interval selection agree; and a listing returns the
\* newest `limit` of the selected events.  (The first conjunct depends on the
\* table alone and is evaluated where the table was last written.)
C8_MonthBoundary ==
    /\ result.op \in {"none", "log_access"} =>
          \A mes \in 1..12, ano \in CheckYears : MonthSelectionExact(db, mes, ano)
    /\ (result.op \in {"get_logs_by_month_year", "get_logs_by_page_and_month_year"}
        /\ result.status = 200) =>
          LET M == {r \in MonthRows(db, result.mes, result.ano) :
                      result.op = "get_logs_by_month_year" \/ r.page = result.page}
          IN /\ Range(result.data) \subseteq M
             /\ Len(result.data) = Min(result.limit, Cardinality(M))
             /\ result.total = Len(result.data)
             /\ \A i, j \in 1..Len(result.data) :
                  i < j => TextLeq(result.data[j].timestamp, result.data[i].timestamp)
             /\ \A r \in M \ Range(result.data) : \A i \in 1..Len(result.data) :
                  TextLeq(r.timestamp, result.data[i].timestamp)

\* C8 witness: December 2025 is listed while the table holds an event of the
\* first instant of December and an event of the first instant of January
\* 2026; the first is returned and the second is not.
C8_Witness ==
    /\ result.op = "get_logs_by_month_year" /\ result.status = 200
    /\ result.mes = 12 /\ result.ano = 2025 /\ result.limit = 1000
    /\ Len(db.rows) = 2
    /\ db.rows[1].timestamp = FmtTimestamp(Civil(2025, 12, 1, 0, 0, 0))
    /\ db.rows[2].timestamp = FmtTimestamp(Civil(2026, 1, 1, 0, 0, 0))
    /\ result.data = <<db.rows[1]>>

----
(***************************************************************************)
(* GET /stats/suspicious_ips                                               *)
(***************************************************************************)
MaxBurstRows == 10

RECURSIVE InsertByCountDesc(_, _)
InsertByCountDesc(s, e) ==
    IF Len(s) = 0 THEN <<e>>
    ELSE IF Head(s).count < e.count THEN <<e>> \o s
    ELSE <<Head(s)>> \o InsertByCountDesc(Tail(s), e)

RECURSIVE OrderByCountDesc(_)
\* ORDER BY count DESC through a sorter: groups of equal count keep the
\* order of the grouping
OrderByCountDesc(groups) ==
    IF Len(groups) = 0 THEN <<>>
    ELSE InsertByCountDesc(OrderByCountDesc(SubSeq(groups, 1, Len(groups) - 1)),
                           groups[Len(groups)])

\* the unzoned clock: start_time = datetime.now() - timedelta(hours=hours)
start_time_local(hours) == AddHours(now_local, 0 - hours)

get_suspicious_ips(d, threshold, hours) ==
    IF threshold < 10 \/ hours < 1 THEN [op |-> "get_suspicious_ips", status |-> 422]
    ELSE LET start_str == FmtTimestamp(start_time_local(hours))
             sel == {r \in RowSet(d.rows) : TextLeq(start_str, r.timestamp)}
             ips == SortTextAsc({r.ip : r \in sel})
             groups == [i \in 1..Len(ips) |->
                          [ip |-> ips[i], count |-> Cardinality({r \in sel : r.ip = ips[i]})]]
             having == SelectSeq(groups, LAMBDA g : g.count >= threshold)
         IN [op |-> "get_suspicious_ips", status |-> 200, at |-> now_br,
             threshold |-> threshold, time_window_hours |-> hours,
             suspicious_ips |-> OrderByCountDesc(having)]

GetSuspiciousIps ==
    /\ \E threshold \in {9, 10}, hours \in {0, 1, 4} :
         result' = get_suspicious_ips(get_db(db), threshold, hours)
    /\ db' = get_db(db)
    /\ UNCHANGED <<clock, tz, pc, call, conns, lock, history, dump, target>>

SuspiciousInstants == {Civil(2025, 7, 15, 10, 0, 0), Civil(2025, 7, 15, 12, 30, 0)}

InitSuspicious == InitAt(Civil(2025, 7, 15, 10, 0, 0), ServerZones) /\ dump = <<>>

NextSuspicious ==
    \/ LogAccess(MaxBurstRows, {Bob}, {PageA}, {Ip1, Ip2}, {AgentX})
    \/ Tick(SuspiciousInstants)
    \/ GetSuspiciousIps

SpecSuspicious == InitSuspicious /\ [][NextSuspicious]_vars

\* the events of an ip ingested within the `hours` hours before the call
RecentOf(ip, at, hours) ==
    {r \in RowSet(db.rows) :
        r.ip = ip /\ ~CivilLess(ParseTimestamp(r.timestamp), AddHours(at, 0 - hours))}

\* C10: the suspicious ips are exactly the ips with at least `threshold`
\* events ingested within the last `hours` hours (timestamps being the
\* America/Sao_Paulo time of ingestion), each with that count, by count
\* descending.
C10_SuspiciousIps ==
    (result.op = "get_suspicious_ips" /\ result.status = 200) =>
        LET out == result.suspicious_ips
            n(ip) == Cardinality(RecentOf(ip, result.at, result.time_window_hours))
        IN /\ {out[i].ip : i \in 1..Len(out)}
                = {ip \in {r.ip : r \in RowSet(db.rows)} : n(ip) >= result.threshold}
           /\ \A i \in 1..Len(out) : out[i].count = n(out[i].ip)
           /\ \A i, j \in 1..Len(out) : i < j => out[i].count >= out[j].count

----
(***************************************************************************)
(* GET /backup/sqlite and restaura_db.py                                   *)
(***************************************************************************)
MaxBackupRows == 2

ItS == <<105, 116, 39, 115>>                \* "it's"
CrText == <<97, 13, 98>>                    \* "a\rb"

\* the file backup_analytics.sql has not been written
NoFile == <<[k |-> "no file"]>>

RECURSIVE UntilNul(_)
\* a text read as a C string: it ends at the first NUL
UntilNul(t) ==
    IF Len(t) = 0 \/ Head(t) = 0 THEN <<>> ELSE <<Head(t)>> \o UntilNul(Tail(t))

RECURSIVE DoubleQuotes(_)
DoubleQuotes(t) ==
    IF Len(t) = 0 THEN <<>>
    ELSE IF Head(t) = 39 THEN <<39, 39>> \o DoubleQuotes(Tail(t))
    ELSE <<Head(t)>> \o DoubleQuotes(Tail(t))

\* quote(column) of the dump's SELECT: a SQL literal, '...' with ' doubled,
\* built from the value as a C string
quote(t) == <<39>> \o DoubleQuotes(UntilNul(t)) \o <<39>>

RECURSIVE UndoubleQuotes(_)
UndoubleQuotes(t) ==
    IF Len(t) = 0 THEN <<>>
    ELSE IF Len(t) >= 2 /\ t[1] = 39 /\ t[2] = 39 THEN <<39>> \o UndoubleQuotes(Tail(Tail(t)))
    ELSE <<Head(t)>> \o UndoubleQuotes(Tail(t))

\* the value of a SQL text literal
literal_value(q) == UndoubleQuotes(SubSeq(q, 2, Len(q) - 1))

RECURSIVE UniversalNewlines(_)
\* open(arquivo_sql, 'r').read(): "\r\n" and "\r" are read as "\n"
UniversalNewlines(t) ==
    IF Len(t) = 0 THEN <<>>
    ELSE IF Head(t) = 13
         THEN IF Len(t) >= 2 /\ t[2] = 10 THEN <<10>> \o UniversalNewlines(Tail(Tail(t)))
              ELSE <<10>> \o UniversalNewlines(Tail(t))
    ELSE <<Head(t)>> \o UniversalNewlines(Tail(t))

\* sqlite_master order of the indexes
IndexOrder == <<"idx_user_id", "idx_page", "idx_timestamp", "idx_ip", "idx_browser">>

\* the INSERT line of one row: INSERT INTO "access_logs" VALUES(id, '...', ...)
insert_line(r) ==
    [k |-> "insert", id |-> r.id,
     values |-> <<quote(r.user_id), quote(r.page), quote(r.ip), quote(r.browser),
                  quote(r.timestamp)>>]

\* the CREATE TABLE line of a dump, written as IF NOT EXISTS (not what
\* sqlite_master holds)
create_line_if_not_exists == [k |-> "create table", if_not_exists |-> TRUE]

\* the CREATE TABLE line: the text sqlite_master keeps, without IF NOT EXISTS
create_line == [k |-> "create table", if_not_exists |-> FALSE]

\* conn.iterdump(): the lines written to the dump
iterdump(d) ==
    <<[k |-> "begin"]>>
    \o (IF d.tableExists
        THEN <<create_line>> \o [i \in 1..Len(d.rows) |-> insert_line(d.rows[i])]
        ELSE <<>>)
    \o [i \in 1..Len(SelectSeq(IndexOrder, LAMBDA n : n \in d.indexes)) |->
          [k |-> "create index", name |-> SelectSeq(IndexOrder, LAMBDA n : n \in d.indexes)[i]]]
    \o (IF d.tableExists THEN <<[k |-> "delete sequence"]>> ELSE <<>>)
    \o (IF d.tableExists /\ d.seq > 0 THEN <<[k |-> "insert sequence", seq |-> d.seq]>> ELSE <<>>)
    \o <<[k |-> "commit"]>>

\* f.read() of the dump file
read_script(file) ==
    [i \in 1..Len(file) |->
        IF file[i].k = "insert"
        THEN [file[i] EXCEPT !.values = [j \in 1..5 |-> UniversalNewlines(file[i].values[j])]]
        ELSE file[i]]

RECURSIVE InsertByRowid(_, _)
InsertByRowid(rows, r) ==
    IF Len(rows) = 0 THEN <<r>>
    ELSE IF r.id < Head(rows).id THEN <<r>> \o rows
    ELSE <<Head(rows)>> \o InsertByRowid(Tail(rows), r)

Ok(d) == [err |-> "", db |-> d]
Failed(msg, d) == [err |-> msg, db |-> d]

\* one statement of the script against the connection's view of the database
exec_statement(d, st) ==
    IF st.k = "create table"
    THEN IF d.tableExists
         THEN (IF st.if_not_exists THEN Ok(d) ELSE Failed("table access_logs already exists", d))
         ELSE Ok(create_table(d))
    ELSE IF st.k = "insert"
    THEN IF ~d.tableExists THEN Failed("no such table: access_logs", d)
         ELSE IF \E i \in 1..Len(d.rows) : d.rows[i].id = st.id
         THEN Failed("UNIQUE constraint failed: access_logs.id", d)
         ELSE Ok([d EXCEPT
                    !.rows = InsertByRowid(@, [id |-> st.id,
                                               user_id |-> literal_value(st.values[1]),
                                               page |-> literal_value(st.values[2]),
                                               ip |-> literal_value(st.values[3]),
                                               browser |-> literal_value(st.values[4]),
                                               timestamp |-> literal_value(st.values[5])]),
                    !.seq = Max(@, st.id)])
    ELSE IF st.k = "create index"
    THEN IF st.name \in d.indexes THEN Failed("index already exists", d)
         ELSE IF ~d.tableExists THEN Failed("no such table: main.access_logs", d)
         ELSE Ok([d EXCEPT !.indexes = @ \union {st.name}])
    ELSE IF st.k = "delete sequence"
    THEN IF d.tableExists THEN Ok([d EXCEPT !.seq = 0])
         ELSE Failed("no such table: sqlite_sequence", d)
    ELSE IF st.k = "insert sequence"
    THEN IF d.tableExists THEN Ok([d EXCEPT !.seq = st.seq])
         ELSE Failed("no such table: sqlite_sequence", d)
    ELSE Ok(d)

RECURSIVE run_statements(_, _)
\* the statements in order; the first error ends the script
run_statements(d, script) ==
    IF Len(script) = 0 THEN Ok(d)
    ELSE LET r == exec_statement(d, Head(script))
         IN IF r.err # "" THEN r ELSE run_statements(r.db, Tail(script))

\* cursor.executescript(sql_script) and the except/finally around it: the
\* script opens a transaction with its first line, so an error leaves it
\* open and conn.close() rolls it back
executescript(d, script) ==
    LET r == run_statements(d, script)
    IN IF r.err = "" THEN r
       ELSE IF Len(script) > 0 /\ Head(script).k = "begin" THEN Failed(r.err, d)
       ELSE r

----
BackupSqlite ==
    /\ dump' = iterdump(db)
    /\ result' = [op |-> "backup_sqlite", status |-> 200]
    /\ UNCHANGED <<db, clock, tz, pc, call, conns, lock, history, target>>

\* python restaura_db.py in the directory of the target database
RestaurarBackup ==
    /\ IF dump = NoFile
       THEN /\ result' = [op |-> "restaurar_backup", error |-> "FileNotFoundError",
                          before |-> target]
            /\ UNCHANGED target
       ELSE LET r == executescript(target, read_script(dump))
            IN /\ target' = r.db
               /\ result' = [op |-> "restaurar_backup", error |-> r.err, before |-> target]
    /\ UNCHANGED <<db, clock, tz, pc, call, conns, lock, history, dump>>

\* the application is started on the target database and serves a read:
\* get_db creates the schema
ServeOnTarget ==
    /\ target' = get_db(target)
    /\ result' = [op |-> "get_total_access", status |-> 200, total |-> Len(target.rows)]
    /\ UNCHANGED <<db, clock, tz, pc, call, conns, lock, history, dump>>

InitBackup ==
    /\ InitAt(Civil(2025, 7, 15, 10, 0, 0), {0})
    /\ dump = NoFile

NextBackup ==
    \/ LogAccess(MaxBackupRows, {Bob, ItS, CrText}, {PageA}, {Ip1}, {AgentX, NoHeader})
    \/ BackupSqlite
    \/ RestaurarBackup
    \/ ServeOnTarget

SpecBackup == InitBackup /\ [][NextBackup]_vars

\* the rows the INSERT lines of a script stand for
ScriptRows(script) ==
    {[id |-> script[i].id,
      user_id |-> literal_value(script[i].values[1]),
      page |-> literal_value(script[i].values[2]),
      ip |-> literal_value(script[i].values[3]),
      browser |-> literal_value(script[i].values[4]),
      timestamp |-> literal_value(script[i].values[5])] :
        i \in {j \in 1..Len(script) : script[j].k = "insert"}}

\* restaurar_backup has just replayed a dump of the store as it is now
ReplayedCurrentDump ==
    /\ result.op = "restaurar_backup"
    /\ dump # NoFile
    /\ dump = iterdump(db)

\* C5: the dump of a store, replayed into an empty store, leaves there exactly
\* the rows of the original store, ids included.
C5_RoundTrip ==
    (ReplayedCurrentDump /\ Len(result.before.rows) = 0) =>
        RowSet(target.rows) = RowSet(db.rows)

\* restaurar_backup has just replayed a dump into a store that already held
\* the rows of the dump, at least one
ReplayedIntoSameRows ==
    /\ result.op = "restaurar_backup"
    /\ dump # NoFile
    /\ Len(result.before.rows) > 0
    /\ RowSet(result.before.rows) = ScriptRows(read_script(dump))

----
(***************************************************************************)
(* Concurrent requests: the handlers run on the server's worker threads,   *)
(* one connection per call, statement by statement                         *)
(***************************************************************************)
\* calls started over a run
MaxCalls == 3

LogAccessApp == "log_access"
LogAccessApi == "api.log_access"
GetSummary == "get_summary"
GetPageCounts == "get_page_counts_and_uniques_by_month_year"

IsAppend(op) == op \in {LogAccessApp, LogAccessApi}

\* SELECT page, COUNT(*) ... GROUP BY page: the groups in index order
group_by_page(R) ==
    LET keys == SortTextAsc({r.page : r \in R})
    IN [i \in 1..Len(keys) |->
          [page |-> keys[i], count |-> Cardinality({r \in R : r.page = keys[i]})]]

\* SELECT browser, COUNT(*) ... GROUP BY browser: the groups in index order
group_by_browser(R) ==
    LET keys == SortTextAsc({r.browser : r \in R})
    IN [i \in 1..Len(keys) |->
          [browser |-> keys[i], count |-> Cardinality({r \in R : r.browser = keys[i]})]]

\* the i-th SELECT of get_summary over the committed rows it reads
summary_select(i, rows) ==
    CASE i = 1 ->
           LET dates == SortTextDesc({SqlDate(r.timestamp) : r \in RowSet(rows)})
           IN [j \in 1..Len(dates) |->
                 [date |-> dates[j],
                  count |-> Cardinality({r \in RowSet(rows) :
                                            SqlDate(r.timestamp) = dates[j]})]]
      [] i = 2 ->
           LimitOffset(OrderByCountDesc(group_by_page(RowSet(rows))), 10, 0)
      [] OTHER ->
           LimitOffset(OrderByCountDesc(group_by_browser(RowSet(rows))), 5, 0)

\* the i-th SELECT of get_page_counts_and_uniques_by_month_year, as the dict
\* built from its rows
page_counts_select(i, rows, mes, ano) ==
    CASE i = 1 -> count_by_page(rows_in_month(rows, mes, ano))
      [] i = 2 -> uniques_by_page(rows_in_month(rows, mes, ano))
      [] i = 3 -> count_by_page(rows_until_month(rows, mes, ano))
      [] i = 4 -> uniques_by_page(rows_until_month(rows, mes, ano))
      [] i = 5 -> count_by_page(RowSet(rows))
      [] OTHER -> uniques_by_page(RowSet(rows))

\* number of SELECTs a handler issues
selects_of(op) == IF op = GetSummary THEN 3 ELSE IF op = GetPageCounts THEN 6 ELSE 0

select_of(c, i, rows) ==
    IF c.op = GetSummary THEN summary_select(i, rows)
    ELSE page_counts_select(i, rows, c.mes, c.ano)

\* the body a handler returns once its SELECTs have been fetched
response_of(c) ==
    IF c.op = GetSummary
    THEN [daily_access |-> c.parts[1], top_pages |-> c.parts[2],
          top_browsers |-> c.parts[3]]
    ELSE [mes |-> c.mes, ano |-> c.ano,
          pages |-> assemble_pages(c.parts[1], c.parts[2], c.parts[3],
                                   c.parts[4], c.parts[5], c.parts[6])]

\* get_summary run without interference: the three SELECTs see the same rows
get_summary(d) ==
    [daily_access |-> summary_select(1, d.rows), top_pages |-> summary_select(2, d.rows),
     top_browsers |-> summary_select(3, d.rows)]

\* a SELECT reads what has been committed, whatever another connection's
\* open transaction holds
dirty_rows == IF lock.reserved = "none" THEN db.rows ELSE call[lock.reserved].txn.rows

visible_rows == db.rows

\* The file locks of analytics.db.  RESERVED: one connection at a time may
\* have an open write transaction.  EXCLUSIVE: held while a commit writes the
\* file; nothing else can read or write meanwhile.
reserve_unchecked == TRUE

can_reserve == lock.reserved = "none" /\ ~lock.exclusive

can_read == ~lock.exclusive

\* sqlite3.OperationalError raised when the busy timeout of the connection
\* (5 s by default) runs out
Locked == "database is locked"

Running == {w \in Workers : pc[w] # "idle"}

\* What a client saw of a call that returned; lo and hi are the numbers of
\* committed rows when the call started and when it returned.
Returned(w, parts, hi) ==
    [op |-> call[w].op, ok |-> TRUE, error |-> "",
     user_id |-> call[w].user_id, page |-> call[w].page,
     mes |-> call[w].mes, ano |-> call[w].ano, id |-> call[w].id,
     lo |-> call[w].lo, hi |-> hi, parts |-> parts]

\* What a client saw of a call that failed (HTTP 500)
Raised(w, error) == [op |-> call[w].op, ok |-> FALSE, error |-> error]

\* A request reaches a worker thread and its handler is entered; its first
\* statement is get_db, which opens the connection of the call:
\* conn = sqlite3.connect("analytics.db")
StartCall(w) ==
    /\ pc[w] = "idle"
    /\ Len(history) + Cardinality(Running) < MaxCalls
    /\ \E op \in {LogAccessApp, LogAccessApi, GetSummary, GetPageCounts},
          u \in {Bob, Ann} :
         /\ op # LogAccessApp => u = Bob
         /\ call' = [call EXCEPT ![w] =
               [op |-> op,
                user_id |-> IF IsAppend(op) THEN u ELSE Null,
                page |-> IF IsAppend(op) THEN PageA ELSE Null,
                mes |-> IF op = GetPageCounts THEN clock.Mo ELSE 0,
                ano |-> IF op = GetPageCounts THEN clock.Y ELSE 0,
                id |-> 0, lo |-> Len(db.rows),
                parts |-> <<>>, txn |-> FreshDb]]
    /\ conns' = [conns EXCEPT !.open = @ \union {w}]
    /\ pc' = [pc EXCEPT ![w] = "create_table"]
    /\ UNCHANGED <<db, clock, tz, result, lock, history, dump, target>>

first_statement(op) == IF IsAppend(op) THEN "insert" ELSE "select"

\* get_db: CREATE TABLE IF NOT EXISTS, committed by itself
CreateTable(w) ==
    /\ pc[w] = "create_table"
    /\ IF db.tableExists THEN can_read ELSE can_reserve
    /\ db' = create_table(db)
    /\ pc' = [pc EXCEPT ![w] = IF call[w].op = LogAccessApi
                                THEN first_statement(call[w].op)
                                ELSE "create_indexes"]
    /\ UNCHANGED <<clock, tz, result, call, conns, lock, history, dump, target>>

\* get_db of app.py: the five CREATE INDEX IF NOT EXISTS and the commit
\* that follows them
CreateIndexes(w) ==
    /\ pc[w] = "create_indexes"
    /\ IF IndexNames \subseteq db.indexes THEN can_read ELSE can_reserve
    /\ db' = create_indexes(db)
    /\ pc' = [pc EXCEPT ![w] = first_statement(call[w].op)]
    /\ UNCHANGED <<clock, tz, result, call, conns, lock, history, dump, target>>

\* A statement of get_db raises: get_db has no try of its own and the
\* handlers call it before entering theirs, so nothing closes the connection.
GetDbLocked(w) ==
    /\ pc[w] \in {"create_table", "create_indexes"}
    /\ ~can_read
    /\ history' = Append(history, Raised(w, Locked))
    /\ conns' = [open |-> conns.open \ {w}, leaked |-> conns.leaked + 1]
    /\ pc' = [pc EXCEPT ![w] = "idle"]
    /\ call' = [call EXCEPT ![w] = NoResult]
    /\ UNCHANGED <<db, clock, tz, result, lock, dump, target>>

\* log_access: the timestamp is taken and the INSERT opens the write
\* transaction of the connection
Insert(w) ==
    /\ pc[w] = "insert"
    /\ can_reserve
    /\ lock' = [lock EXCEPT !.reserved = w]
    /\ LET txn == insert(db, call[w].user_id, call[w].page, Ip1, user_agent_of(AgentX),
                         FmtTimestamp(now_br))
       IN call' = [call EXCEPT ![w].txn = txn, ![w].id = txn.seq]
    /\ pc' = [pc EXCEPT ![w] = "commit"]
    /\ UNCHANGED <<db, clock, tz, result, conns, history, dump, target>>

\* The INSERT raises.  app.py closes the connection in its finally block;
\* api.py has no finally and returns without closing.
InsertLocked(w) ==
    /\ pc[w] = "insert"
    /\ ~can_reserve
    /\ lock.reserved # w
    /\ history' = Append(history, Raised(w, Locked))
    /\ conns' = [open |-> conns.open \ {w},
                 leaked |-> IF call[w].op = LogAccessApi THEN conns.leaked + 1
                            ELSE conns.leaked]
    /\ pc' = [pc EXCEPT ![w] = "idle"]
    /\ call' = [call EXCEPT ![w] = NoResult]
    /\ UNCHANGED <<db, clock, tz, result, lock, dump, target>>

\* conn.commit() takes the file for itself ...
Commit(w) ==
    /\ pc[w] = "commit"
    /\ ~lock.exclusive
    /\ lock' = [lock EXCEPT !.exclusive = TRUE]
    /\ pc' = [pc EXCEPT ![w] = "commit_write"]
    /\ UNCHANGED <<db, clock, tz, result, call, conns, history, dump, target>>

\* ... writes the pages of its transaction and lets go of the locks; the
\* handler then closes the connection and returns {"success": True}
CommitWrite(w) ==
    /\ pc[w] = "commit_write"
    /\ db' = [db EXCEPT !.rows = call[w].txn.rows, !.seq = call[w].txn.seq]
    /\ lock' = [reserved |-> "none", exclusive |-> FALSE]
    /\ history' = Append(history, Returned(w, <<>>, Len(call[w].txn.rows)))
    /\ conns' = [conns EXCEPT !.open = @ \ {w}]
    /\ pc' = [pc EXCEPT ![w] = "idle"]
    /\ call' = [call EXCEPT ![w] = NoResult]
    /\ UNCHANGED <<clock, tz, result, dump, target>>

\* cursor.execute(SELECT ...) and fetchall(): a SELECT of the handler other
\* than its last
Select(w) ==
    /\ pc[w] = "select"
    /\ can_read
    /\ Len(call[w].parts) + 1 < selects_of(call[w].op)
    /\ call' = [call EXCEPT ![w].parts =
                   Append(@, select_of(call[w], Len(call[w].parts) + 1, visible_rows))]
    /\ UNCHANGED <<db, clock, tz, result, pc, conns, lock, history, dump, target>>

\* the last SELECT of the handler; the response is built, the finally block
\* closes the connection and the handler returns
SelectAndReturn(w) ==
    /\ pc[w] = "select"
    /\ can_read
    /\ Len(call[w].parts) + 1 = selects_of(call[w].op)
    /\ history' = Append(history,
          Returned(w, Append(call[w].parts,
                             select_of(call[w], Len(call[w].parts) + 1, visible_rows)),
                   Len(db.rows)))
    /\ conns' = [conns EXCEPT !.open = @ \ {w}]
    /\ pc' = [pc EXCEPT ![w] = "idle"]
    /\ call' = [call EXCEPT ![w] = NoResult]
    /\ UNCHANGED <<db, clock, tz, result, lock, dump, target>>

\* A SELECT raises; the finally block of the handler closes the connection.
SelectLocked(w) ==
    /\ pc[w] = "select"
    /\ ~can_read
    /\ history' = Append(history, Raised(w, Locked))
    /\ conns' = [conns EXCEPT !.open = @ \ {w}]
    /\ pc' = [pc EXCEPT ![w] = "idle"]
    /\ call' = [call EXCEPT ![w] = NoResult]
    /\ UNCHANGED <<db, clock, tz, result, lock, dump, target>>

\* The interpreter reclaims a connection object nothing refers to any more,
\* which closes it.
Finalize ==
    /\ conns.leaked > 0
    /\ conns' = [conns EXCEPT !.leaked = @ - 1]
    /\ UNCHANGED <<db, clock, tz, result, pc, call, lock, history, dump, target>>

Init ==
    /\ InitAt(Civil(2025, 7, 15, 10, 0, 0), {0})
    /\ dump = NoFile

Next ==
    \/ \E w \in Workers :
          \/ StartCall(w)
          \/ CreateTable(w)
          \/ CreateIndexes(w)
          \/ GetDbLocked(w)
          \/ Insert(w)
          \/ InsertLocked(w)
          \/ Commit(w)
          \/ CommitWrite(w)
          \/ Select(w)
          \/ SelectAndReturn(w)
          \/ SelectLocked(w)
    \/ Finalize

Spec == Init /\ [][Next]_vars

Appends == {i \in 1..Len(history) : history[i].ok /\ IsAppend(history[i].op)}
Reads == {i \in 1..Len(history) : history[i].ok /\ ~IsAppend(history[i].op)}

\* position in the table of the row holding an id (0 when there is none)
RowIndex(id) ==
    IF \E k \in 1..Len(db.rows) : db.rows[k].id = id
    THEN CHOOSE k \in 1..Len(db.rows) : db.rows[k].id = id
    ELSE 0

\* C1: the ids of the rows are pairwise distinct and strictly increasing in
\* insertion order, and no id above the highest one ever assigned is in use
\* (so the next id is a new one).
C1_AppendMonotonic ==
    /\ \A i, j \in 1..Len(db.rows) : i < j => db.rows[i].id < db.rows[j].id
    /\ \A i \in 1..Len(db.rows) : db.rows[i].id >= 1 /\ db.rows[i].id <= db.seq

C1_Witness == Len(db.rows) >= 3

\* C2: under any interleaving, every log_access call that has returned
\* success has, from its return on, exactly one committed row of its own
\* that carries its user_id and page (committed rows are what every later
\* SELECT reads); no two calls share a row, and the table holds one row per
\* successful call.
C2_NoLostWrite ==
    /\ \A i \in Appends :
          /\ RowIndex(history[i].id) > 0
          /\ RowIndex(history[i].id) <= history[i].hi
          /\ db.rows[RowIndex(history[i].id)].user_id = history[i].user_id
          /\ db.rows[RowIndex(history[i].id)].page = history[i].page
    /\ \A i, j \in Appends : i # j => history[i].id # history[j].id
    /\ Len(db.rows) = Cardinality(Appends)

\* two appends that overlapped both succeeded, and a third one was refused
C2_Witness ==
    /\ \E i, j \in Appends : i < j /\ history[j].lo < RowIndex(history[i].id)
    /\ \E i \in 1..Len(history) : ~history[i].ok /\ IsAppend(history[i].op)

\* C3: once a call has returned or failed, no connection it opened is open.
C3_HandleReleased ==
    /\ conns.leaked = 0
    /\ \A w \in Workers : pc[w] = "idle" => w \notin conns.open

RECURSIVE PartsFrom(_, _, _)
\* the parts of a finished read, from the j-th on, are each the SELECT over
\* the first k rows of the table for some k that never decreases
PartsFrom(e, j, kmin) ==
    \/ j > Len(e.parts)
    \/ \E k \in kmin..e.hi :
          /\ e.parts[j] = select_of(e, j, SubSeq(db.rows, 1, k))
          /\ PartsFrom(e, j + 1, k)

\* the response of a read handler run without interference on the store d
handler_on(e, d) ==
    IF e.op = GetSummary THEN get_summary(d)
    ELSE LET r == get_page_counts_and_uniques_by_month_year(d, e.mes, e.ano)
         IN [mes |-> r.mes, ano |-> r.ano, pages |-> r.pages]

\* C4 (as stated): the whole result of a read equals the handler run on one
\* snapshot of the store, taken between the start and the return of the call.
C4_SingleSnapshot ==
    \A i \in Reads :
        \E k \in history[i].lo..history[i].hi :
            response_of(history[i]) =
                handler_on(history[i], [db EXCEPT !.rows = SubSeq(db.rows, 1, k)])

\* C4 (amended): each SELECT of a read is computed on one committed snapshot
\* of the store, taken between the start and the return of the call; the
\* snapshots of successive SELECTs never go back, but they may differ.
C4_SnapshotPerSelect ==
    \A i \in Reads :
        /\ Len(history[i].parts) = selects_of(history[i].op)
        /\ PartsFrom(history[i], 1, history[i].lo)

C4_Witness ==
    \E i \in Reads :
        /\ history[i].hi > history[i].lo
        /\ history[i].parts[1] # select_of(history[i], 1, SubSeq(db.rows, 1, history[i].hi))
        /\ history[i].parts[Len(history[i].parts)]
              # select_of(history[i], Len(history[i].parts), SubSeq(db.rows, 1, history[i].lo))

----
(***************************************************************************)
(* GET /access_logs/date_range                                             *)
(***************************************************************************)
\* The handler passes start_date and end_date to the query as they came;
\* nothing in its try block raises ValueError, so the except clause that
\* answers 400 is never entered.  BETWEEN compares the texts.
get_logs_by_date_range(d, start_date, end_date) ==
    LET sel == SelectSeq(d.rows, LAMBDA r : date_between(r, start_date, end_date))
    IN [op |-> "get_logs_by_date_range", status |-> 200,
        start_date |-> start_date, end_date |-> end_date,
        data |-> OrderByTimestamp(sel, "DESC")]

\* query strings a client may send: the dates 2025-12-31 and 2026-01-01, and
\* the texts "0", "9" and "2025-1-1", which are not dates
DateTexts ==
    {FmtDate(Civil(2025, 12, 31, 0, 0, 0)), FmtDate(Civil(2026, 1, 1, 0, 0, 0)),
     <<48>>, <<57>>, <<50, 48, 50, 53, 45, 49, 45, 49>>}

GetLogsByDateRange ==
    /\ \E start_date \in DateTexts, end_date \in DateTexts :
         result' = get_logs_by_date_range(get_db(db), start_date, end_date)
    /\ db' = get_db(db)
    /\ UNCHANGED <<clock, tz, pc, call, conns, lock, history, dump, target>>

InitDateRange == InitAt(Civil(2025, 12, 31, 9, 0, 0), {0}) /\ dump = <<>>

NextDateRange ==
    \/ LogAccess(MaxRows, {Bob}, {PageA}, {Ip1}, {AgentX})
    \/ Tick(DailyInstants)
    \/ GetLogsByDateRange

SpecDateRange == InitDateRange /\ [][NextDateRange]_vars

\* a text of the shape YYYY-MM-DD that names a day of the calendar
WellFormedDate(t) ==
    /\ Len(t) = 10
    /\ \A i \in {1, 2, 3, 4, 6, 7, 9, 10} : IsDigit(t[i])
    /\ t[5] = 45 /\ t[8] = 45
    /\ ToInt(SubSeq(t, 6, 7)) \in 1..12
    /\ ToInt(SubSeq(t, 9, 10)) \in 1..DaysInMonth(ToInt(SubSeq(t, 1, 4)), ToInt(SubSeq(t, 6, 7)))

\* a day as a number that grows with the calendar
DayNumber(y, mo, d) == y * 10000 + mo * 100 + d
DayOfText(t) == DayNumber(ToInt(SubSeq(t, 1, 4)), ToInt(SubSeq(t, 6, 7)), ToInt(SubSeq(t, 9, 10)))
DayOfRow(r) ==
    DayNumber(ParseTimestamp(r.timestamp).Y, ParseTimestamp(r.timestamp).Mo,
              ParseTimestamp(r.timestamp).D)

\* C11: a date-range call whose start_date or end_date is not a well-formed
\* YYYY-MM-DD date fails with HTTP 400; with well-formed dates it returns
\* exactly the events whose calendar date lies in start_date..end_date.
C11_DateRange ==
    result.op = "get_logs_by_date_range" =>
        IF WellFormedDate(result.start_date) /\ WellFormedDate(result.end_date)
        THEN /\ result.status = 200
             /\ RowSet(result.data) =
                  {r \in RowSet(db.rows) :
                      /\ DayOfText(result.start_date) <= DayOfRow(r)
                      /\ DayOfRow(r) <= DayOfText(result.end_date)}
        ELSE result.status = 400

----
(***************************************************************************)
(* GET /stats/recurrence_by_page over a store with repeated visits         *)
(***************************************************************************)
MaxRecurrenceRows == 5

\* the last second of a year and the first of the next
YearEndInstants == {Civil(2025, 12, 31, 23, 59, 59), Civil(2026, 1, 1, 0, 0, 0)}

GetRecurrenceByPageOf(Months) ==
    /\ \E my \in Months : result' = get_recurrence_by_page(get_db(db), my[1], my[2])
    /\ db' = get_db(db)
    /\ UNCHANGED <<clock, tz, pc, call, conns, lock, history, dump, target>>

InitRecurrence == InitAt(Civil(2025, 12, 31, 23, 59, 59), {0}) /\ dump = <<>>

NextRecurrence ==
    \/ LogAccess(MaxRecurrenceRows, {Bob, Ann}, {PageA}, {Ip1}, {AgentX})
    \/ LogAccess(MaxRecurrenceRows, {Bob}, {PageB}, {Ip1}, {AgentX})
    \/ Tick(YearEndInstants)
    \/ GetRecurrenceByPageOf({<<12, 2025>>, <<1, 2026>>})

SpecRecurrence == InitRecurrence /\ [][NextRecurrence]_vars

\* accesses of a user to a page within the month
AccessCount(p, u, mes, ano) ==
    Cardinality({r \in MonthRows(db, mes, ano) : r.page = p /\ r.user_id = u})

\* users with an access to the page within the month
UsersOf(p, mes, ano) == {r.user_id : r \in {x \in MonthRows(db, mes, ano) : x.page = p}}

\* C12: the recurrence report has one entry per page with activity in the
\* month; its buckets 1x..4x count the users with exactly that many accesses
\* to the page in the month and 5x_or_more those with five or more, so every
\* (page, user) pair is counted in exactly one bucket, once; and
\* max_accesses_by_single_user is the largest per-user count of the page.
C12_RecurrenceBuckets ==
    (result.op = "get_recurrence_by_page" /\ result.status = 200) =>
        LET mes == result.mes
            ano == result.ano
        IN /\ {result.pages[i].page : i \in 1..Len(result.pages)}
                 = {r.page : r \in MonthRows(db, mes, ano)}
           /\ \A i, j \in 1..Len(result.pages) :
                 i # j => result.pages[i].page # result.pages[j].page
           /\ \A i \in 1..Len(result.pages) :
                 LET e == result.pages[i]
                     f == e.user_access_frequency
                     exactly(k) == Cardinality({u \in UsersOf(e.page, mes, ano) :
                                                  AccessCount(e.page, u, mes, ano) = k})
                 IN /\ f.x1 = exactly(1)
                    /\ f.x2 = exactly(2)
                    /\ f.x3 = exactly(3)
                    /\ f.x4 = exactly(4)
                    /\ f.x5_or_more =
                         Cardinality({u \in UsersOf(e.page, mes, ano) :
                                         AccessCount(e.page, u, mes, ano) >= 5})
                    /\ f.x1 + f.x2 + f.x3 + f.x4 + f.x5_or_more
                         = Cardinality(UsersOf(e.page, mes, ano))
                    /\ \A u \in UsersOf(e.page, mes, ano) :
                          AccessCount(e.page, u, mes, ano) <= e.max_accesses_by_single_user
                    /\ \E u \in UsersOf(e.page, mes, ano) :
                          AccessCount(e.page, u, mes, ano) = e.max_accesses_by_single_user
                    /\ f.x5_or_more > 0 => e.max_accesses_by_single_user >= 5

\* a report on a user with five accesses to a page in the month
C12_Witness ==
    /\ result.op = "get_recurrence_by_page"
    /\ result.status = 200
    /\ \E i \in 1..Len(result.pages) :
          /\ result.pages[i].user_access_frequency.x5_or_more = 1
          /\ result.pages[i].max_accesses_by_single_user = 5

----
(***************************************************************************)
(* GET /stats/pages_by_month_year over a store with history around a month *)
(***************************************************************************)
MaxRollupRows == 3

\* the last and the first second of December 2025 and of its neighbours
RollupInstants ==
    {Civil(2025, 11, 30, 23, 59, 59), Civil(2025, 12, 1, 0, 0, 0),
     Civil(2025, 12, 31, 23, 59, 59), Civil(2026, 1, 1, 0, 0, 0)}

GetPageCountsAndUniquesOf(Months) ==
    /\ \E my \in Months :
         result' = get_page_counts_and_uniques_by_month_year(get_db(db), my[1], my[2])
    /\ db' = get_db(db)
    /\ UNCHANGED <<clock, tz, pc, call, conns, lock, history, dump, target>>

InitRollup == InitAt(Civil(2025, 11, 30, 23, 59, 59), {0}) /\ dump = <<>>

NextRollup ==
    \/ LogAccess(MaxRollupRows, {Bob, Ann}, {PageA}, {Ip1}, {AgentX})
    \/ LogAccess(MaxRollupRows, {Bob}, {PageB}, {Ip1}, {AgentX})
    \/ Tick(RollupInstants)
    \/ GetPageCountsAndUniquesOf({<<12, 2025>>, <<1, 2026>>})

SpecRollup == InitRollup /\ [][NextRollup]_vars

\* the events stamped before the first instant of the month after mes/ano
UntilRows(d, mes, ano) ==
    LET next == IF mes = 12 THEN Civil(ano + 1, 1, 1, 0, 0, 0) ELSE Civil(ano, mes + 1, 1, 0, 0, 0)
    IN {r \in RowSet(d.rows) : CivilLess(ParseTimestamp(r.timestamp), next)}

EventsOf(R, p) == Cardinality({r \in R : r.page = p})
UsersIn(R, p) == Cardinality({r.user_id : r \in {x \in R : x.page = p}})

\* C13: the monthly rollup has one entry for every page of the store, in
\* page order, also for pages without activity in the month (their monthly
\* numbers are 0); the six numbers are the events and the distinct user_ids
\* of the page within the month, before the end of the month, and over all
\* history, so each monthly number <= its until-month number <= its total.
C13_MonthlyRollup ==
    (result.op = "get_page_counts_and_uniques_by_month_year" /\ result.status = 200) =>
        LET inm == MonthRows(db, result.mes, result.ano)
            until == UntilRows(db, result.mes, result.ano)
            all == RowSet(db.rows)
        IN /\ {result.pages[i].page : i \in 1..Len(result.pages)} = {r.page : r \in all}
           /\ \A i, j \in 1..Len(result.pages) :
                 i < j => TextLess(result.pages[i].page, result.pages[j].page)
           /\ \A i \in 1..Len(result.pages) :
                 LET e == result.pages[i]
                 IN /\ e.count_in_month = EventsOf(inm, e.page)
                    /\ e.unique_users_in_month = UsersIn(inm, e.page)
                    /\ e.count_until_month = EventsOf(until, e.page)
                    /\ e.unique_users_until_month = UsersIn(until, e.page)
                    /\ e.count_total = EventsOf(all, e.page)
                    /\ e.unique_users_total = UsersIn(all, e.page)
                    /\ 0 <= e.count_in_month
                    /\ e.count_in_month <= e.count_until_month
                    /\ e.count_until_month <= e.count_total
                    /\ 0 <= e.unique_users_in_month
                    /\ e.unique_users_in_month <= e.unique_users_until_month
                    /\ e.unique_users_until_month <= e.unique_users_total

\* a rollup listing a page without activity in the month next to a page
\* whose month holds only part of its history
C13_Witness ==
    /\ result.op = "get_page_counts_and_uniques_by_month_year"
    /\ result.status = 200
    /\ \E i, j \in 1..Len(result.pages) :
          /\ result.pages[i].count_in_month = 0
          /\ result.pages[i].unique_users_in_month = 0
          /\ result.pages[i].count_total > 0
          /\ result.pages[j].count_in_month > 0
          /\ result.pages[j].count_in_month < result.pages[j].count_until_month

====
